---- MODULE Spec2Model ----
(***************************************************************************)
(* Model of scoreboard-server.js (the Firebase-mirroring variant, lines    *)
(* 216-503): the /submit, /scores, /player/:name, /signup and /login       *)
(* handlers over the two JSON files (scores.json, users.json) and the      *)
(* optional Firebase RTDB mirror.                                           *)
(*                                                                         *)
(* JavaScript values are tagged records; strings are sequences of          *)
(* one-character strings so that trim(), toLowerCase() and Number() are    *)
(* computed, not assumed.                                                  *)
(***************************************************************************)
EXTENDS Integers, Sequences, FiniteSets, TLC

VARIABLES
    scoresFile,    \* scores.json: the array data.players
    usersFile,     \* users.json: the array data.users
    rtdb,          \* TRUE iff the Firebase mirror is configured (line 258)
    mirrorScores,  \* RTDB /scores/<cat>/<key>: path -> payload
    mirrorUsers,   \* RTDB /users/<nameLower>: nameLower -> account
    mirrorQueue,   \* ref.set() calls of saveScoreToFirebase still in flight
    clock,         \* the wall clock read by new Date()
    last,          \* the last request handled and the response sent
    subMax,        \* history: key -> highest score of an acknowledged submit
    inflight       \* the requests received, each with its handler's locals

vars == <<scoresFile, usersFile, rtdb, mirrorScores, mirrorUsers, mirrorQueue,
          clock, last, subMax, inflight>>

\* The clock stops here: each accepted submission reads a later time, so this
\* is the number of accepted submissions of a run.
MaxClock == 2

----------------------------------------------------------------------------
(* JavaScript values *)

Undef == [t |-> "undefined", n |-> 0, s |-> <<>>, m |-> <<>>]
Null == [t |-> "null", n |-> 0, s |-> <<>>, m |-> <<>>]
Num(k) == [t |-> "number", n |-> k, s |-> <<>>, m |-> <<>>]
Str(cs) == [t |-> "string", n |-> 0, s |-> cs, m |-> <<>>]
Obj(map) == [t |-> "object", n |-> 0, s |-> <<>>, m |-> map]

\* The result of Number(v): a finite number or NaN.
Fin(k) == [nan |-> FALSE, n |-> k]
NaN == [nan |-> TRUE, n |-> 0]

\* An optional numeric property of a stored record.
Absent == [has |-> FALSE, n |-> 0]
Val(k) == [has |-> TRUE, n |-> k]

Whitespace == {" ", "\t", "\n"}

RECURSIVE TrimStart(_)
TrimStart(cs) ==
    IF cs # <<>> /\ Head(cs) \in Whitespace THEN TrimStart(Tail(cs)) ELSE cs

RECURSIVE TrimEnd(_)
TrimEnd(cs) ==
    IF cs # <<>> /\ cs[Len(cs)] \in Whitespace
    THEN TrimEnd(SubSeq(cs, 1, Len(cs) - 1))
    ELSE cs

\* String.prototype.trim
Trim(cs) == TrimEnd(TrimStart(cs))

UpperToLower ==
    [c \in {"A", "B", "E", "G", "L", "O", "S", "T", "U"} |->
        CASE c = "A" -> "a" [] c = "B" -> "b" [] c = "E" -> "e"
          [] c = "G" -> "g" [] c = "L" -> "l" [] c = "O" -> "o"
          [] c = "S" -> "s" [] c = "T" -> "t" [] c = "U" -> "u"]

\* String.prototype.toLowerCase
ToLowerCase(cs) ==
    [i \in 1..Len(cs) |->
        IF cs[i] \in DOMAIN UpperToLower THEN UpperToLower[cs[i]] ELSE cs[i]]

DigitValue ==
    [c \in {"0", "1", "2", "3", "4", "5", "6", "7", "8", "9"} |->
        CASE c = "0" -> 0 [] c = "1" -> 1 [] c = "2" -> 2 [] c = "3" -> 3
          [] c = "4" -> 4 [] c = "5" -> 5 [] c = "6" -> 6 [] c = "7" -> 7
          [] c = "8" -> 8 [] c = "9" -> 9]

AllDigits(cs) == \A i \in 1..Len(cs) : cs[i] \in DOMAIN DigitValue

RECURSIVE DigitsValue(_)
DigitsValue(cs) ==
    IF cs = <<>> THEN 0
    ELSE 10 * DigitsValue(SubSeq(cs, 1, Len(cs) - 1)) + DigitValue[cs[Len(cs)]]

\* StringToNumber: the numeric value of a string of decimal digits with an
\* optional sign, 0 for a blank string, NaN otherwise.
StringToNumber(cs) ==
    LET t == Trim(cs) IN
    IF t = <<>> THEN Fin(0)
    ELSE IF Head(t) \in {"-", "+"} /\ Len(t) > 1 /\ AllDigits(Tail(t))
    THEN Fin((IF Head(t) = "-" THEN -1 ELSE 1) * DigitsValue(Tail(t)))
    ELSE IF AllDigits(t) THEN Fin(DigitsValue(t))
    ELSE NaN

\* Number(v)
ToNumber(v) ==
    CASE v.t = "undefined" -> NaN
      [] v.t = "null" -> Fin(0)
      [] v.t = "number" -> Fin(v.n)
      [] v.t = "string" -> StringToNumber(v.s)
      [] OTHER -> NaN

\* Number.isFinite(Number(v))
IsFiniteNumber(v) == ~ToNumber(v).nan

\* The truthiness of a value (!v is its negation).
Truthy(v) ==
    CASE v.t = "undefined" -> FALSE
      [] v.t = "null" -> FALSE
      [] v.t = "number" -> v.n # 0
      [] v.t = "string" -> v.s # <<>>
      [] OTHER -> TRUE

DigitChar == <<"0", "1", "2", "3", "4", "5", "6", "7", "8", "9">>

RECURSIVE NatToString(_)
NatToString(k) ==
    IF k < 10 THEN <<DigitChar[k + 1]>>
    ELSE NatToString(k \div 10) \o <<DigitChar[(k % 10) + 1]>>

\* String(v)
JsString(v) ==
    CASE v.t = "string" -> v.s
      [] v.t = "number" ->
            IF v.n < 0 THEN <<"-">> \o NatToString(-v.n) ELSE NatToString(v.n)
      [] v.t = "null" -> <<"n", "u", "l", "l">>
      [] v.t = "undefined" ->
            <<"u", "n", "d", "e", "f", "i", "n", "e", "d">>
      [] OTHER ->
            <<"[", "o", "b", "j", "e", "c", "t", " ", "O", "b", "j", "e",
              "c", "t", "]">>

Max(a, b) == IF a >= b THEN a ELSE b
Min(a, b) == IF a <= b THEN a ELSE b

----------------------------------------------------------------------------
(* scores.json and the /submit handler *)

Overall == <<"o", "v", "e", "r", "a", "l", "l">>
GuestName == <<"g", "u", "e", "s", "t">>

\* The optional numeric properties /submit copies with
\* if (Number.isFinite(Number(x))) record.x = Number(x).
NumericFields ==
    {"bankTotal", "moleculesAvailable", "atomsCreated", "ptPercent",
     "molPercent", "electronsGathered", "deaths", "longestStreak",
     "timeSeconds"}

\* p.category || 'overall'
CategoryOf(p) == IF p.category = <<>> THEN Overall ELSE p.category

\* loadScores(): the parsed file, or { players: [] } when reading or parsing
\* throws.
LoadScores(readOk) == IF readOk THEN scoresFile ELSE <<>>

\* saveScores(data): the file after the call; a write that throws is logged
\* and leaves the file as it was.
SaveScores(data, writeOk) == IF writeOk THEN data ELSE scoresFile

\* if (!name || typeof name !== 'string') return res.status(400)
InvalidName(name) == ~Truthy(name) \/ name.t # "string"

\* InvalidScore without its sign check.
InvalidScoreNoSign(parsedScore) == parsedScore.nan

\* if (!Number.isFinite(parsedScore) || parsedScore < 0) return res.status(400)
InvalidScore(parsedScore) == parsedScore.nan \/ parsedScore.n < 0

\* const playerName = String(name || '').trim()
PlayerName(name) == Trim(JsString(IF Truthy(name) THEN name ELSE Str(<<>>)))

\* IsGuest comparing the name as typed.
IsGuestCaseSensitive(playerName) ==
    Len(playerName) = 0 \/ playerName = GuestName

\* const isGuest = playerName.length === 0 || playerName.toLowerCase() === 'guest'
IsGuest(playerName) ==
    Len(playerName) = 0 \/ ToLowerCase(playerName) = GuestName

\* const cat = String(category || 'overall'), category defaulting to
\* 'overall' when the body has none.
Category(category) ==
    LET c == IF category.t = "undefined" THEN Str(Overall) ELSE category IN
    JsString(IF Truthy(c) THEN c ELSE Str(Overall))

\* FindIndex comparing the names as typed.
FindIndexCaseSensitive(players, playerName, cat) ==
    LET hits == {i \in 1..Len(players) :
                    /\ players[i].name = playerName
                    /\ CategoryOf(players[i]) = cat}
    IN IF hits = {} THEN 0 ELSE CHOOSE i \in hits : \A j \in hits : i <= j

\* FindIndex looking the name up in every category.
FindIndexAnyCategory(players, playerName, cat) ==
    LET hits == {i \in 1..Len(players) :
                    ToLowerCase(players[i].name) = ToLowerCase(playerName)}
    IN IF hits = {} THEN 0 ELSE CHOOSE i \in hits : \A j \in hits : i <= j

\* data.players.findIndex(p => p.name.toLowerCase() === playerName.toLowerCase()
\*                              && (p.category || 'overall') === cat); 0 for -1.
FindIndex(players, playerName, cat) ==
    LET hits == {i \in 1..Len(players) :
                    /\ ToLowerCase(players[i].name) = ToLowerCase(playerName)
                    /\ CategoryOf(players[i]) = cat}
    IN IF hits = {} THEN 0 ELSE CHOOSE i \in hits : \A j \in hits : i <= j

\* MergeScore keeping the latest score.
MergeScoreLatest(stored, parsedScore) == parsedScore

\* Math.max(data.players[idx].score || 0, parsedScore)
MergeScore(stored, parsedScore) == Max(stored, parsedScore)

\* MergeNumeric replacing the whole snapshot: a field not supplied is cleared.
MergeNumericReplace(stored, body) ==
    [f \in NumericFields |->
        IF IsFiniteNumber(body.num[f]) THEN Val(ToNumber(body.num[f]).n)
        ELSE Absent]

\* if (Number.isFinite(Number(x))) target.x = Number(x), for every numeric field.
MergeNumeric(stored, body) ==
    [f \in NumericFields |->
        IF IsFiniteNumber(body.num[f]) THEN Val(ToNumber(body.num[f]).n)
        ELSE stored[f]]

\* if (completedCounts && typeof completedCounts === 'object')
\*     target.completedCounts = completedCounts
MergeCounts(stored, completedCounts) ==
    IF Truthy(completedCounts) /\ completedCounts.t = "object"
    THEN completedCounts
    ELSE stored

\* UpdateEntry touching the record only when the score improves.
UpdateEntryIfHigher(p, body, parsedScore, now) ==
    IF parsedScore > p.score
    THEN [p EXCEPT !.score = parsedScore,
                   !.updatedAt = now,
                   !.num = MergeNumeric(p.num, body),
                   !.completedCounts = MergeCounts(p.completedCounts,
                                                   body.completedCounts)]
    ELSE p

\* UpdateEntry stamping createdAt as well.
UpdateEntryStampCreated(p, body, parsedScore, now) ==
    [p EXCEPT !.score = MergeScore(p.score, parsedScore),
              !.updatedAt = now,
              !.createdAt = now,
              !.num = MergeNumeric(p.num, body),
              !.completedCounts = MergeCounts(p.completedCounts,
                                              body.completedCounts)]

\* The branch idx >= 0: the stored record after the update.
UpdateEntry(p, body, parsedScore, now) ==
    [p EXCEPT !.score = MergeScore(p.score, parsedScore),
              !.updatedAt = now,
              !.num = MergeNumeric(p.num, body),
              !.completedCounts = MergeCounts(p.completedCounts,
                                              body.completedCounts)]

\* The branch idx < 0: the entry pushed.
NewEntry(playerName, cat, body, parsedScore, now) ==
    [name |-> playerName,
     category |-> cat,
     score |-> parsedScore,
     updatedAt |-> now,
     createdAt |-> now,
     num |-> MergeNumeric([f \in NumericFields |-> Absent], body),
     completedCounts |-> MergeCounts(Undef, body.completedCounts)]

\* saveScoreToFirebase(entry) up to its await: the ref.set() call issued.
\* Nothing is issued when the mirror is not configured.
MirrorScoreWrite(entry, now) ==
    IF rtdb
    THEN <<[path |-> <<CategoryOf(entry),
                       ToLowerCase(IF entry.name = <<>>
                                   THEN <<"a", "n", "o", "n">>
                                   ELSE entry.name)>>,
            payload |-> [entry EXCEPT !.updatedAt = now]]>>
    ELSE <<>>

\* The key a submission addresses.
KeyOf(playerName, cat) == <<ToLowerCase(playerName), cat>>

\* What the environment did during a request: the mirror lookup and the
\* mirror write a handler awaited ("none" when it made no such call).
Env(get, set) == [get |-> get, set |-> set]
NoEnv == Env("none", "none")

\* The record of a handled request.
Handled(op, at, req, res, env) ==
    [op |-> op, at |-> at, req |-> req, res |-> res, env |-> env]

\* res.json({ ok: true, ... }) with status 200.
Ok(data) == [status |-> 200, ok |-> TRUE, error |-> "", data |-> data]

\* res.status(status).json({ error }).
Error(status, message) ==
    [status |-> status, ok |-> FALSE, error |-> message, data |-> <<>>]

\* app.post('/submit') from the validation to the response, for one request
\* body and the data.players that loadScores() returned to it.
SubmitWith(body, data, writeOk) ==
    /\ UNCHANGED <<usersFile, rtdb, mirrorScores, mirrorUsers>>
    /\ IF InvalidName(body.name)
       THEN /\ last' = Handled("submit", clock, body,
                                Error(400, "Invalid name"), NoEnv)
            /\ UNCHANGED <<scoresFile, mirrorQueue, subMax, clock>>
       ELSE
       LET playerName == PlayerName(body.name)
           isGuest == IsGuest(playerName)
           parsedScore == ToNumber(body.score)
       IN
       IF InvalidScore(parsedScore)
       THEN /\ last' = Handled("submit", clock, body,
                                Error(400, "Invalid score"), NoEnv)
            /\ UNCHANGED <<scoresFile, mirrorQueue, subMax, clock>>
       ELSE
       LET now == clock
           cat == Category(body.category)
           idx == FindIndex(data, playerName, cat)
           players ==
               IF idx > 0
               THEN [data EXCEPT
                        ![idx] = UpdateEntry(data[idx], body, parsedScore.n, now)]
               ELSE Append(data,
                           NewEntry(playerName, cat, body, parsedScore.n, now))
           latest == IF idx > 0 THEN players[idx] ELSE players[Len(players)]
           key == KeyOf(playerName, cat)
       IN
       /\ clock < MaxClock
       /\ clock' = clock + 1
       /\ scoresFile' = IF ~isGuest THEN SaveScores(players, writeOk)
                        ELSE scoresFile
       /\ mirrorQueue' = IF ~isGuest
                         THEN mirrorQueue \o MirrorScoreWrite(latest, now)
                         ELSE mirrorQueue
       /\ last' = Handled("submit", clock, body, Ok(<<>>), NoEnv)
       /\ subMax' = IF key \in DOMAIN subMax
                    THEN [subMax EXCEPT ![key] = Max(@, parsedScore.n)]
                    ELSE [k \in DOMAIN subMax \cup {key} |->
                            IF k = key THEN parsedScore.n ELSE subMax[k]]

\* app.post('/submit'): the whole handler, which runs from loadScores() to
\* res.json() without giving up control.
Submit(body, readOk, writeOk) ==
    /\ SubmitWith(body, LoadScores(readOk), writeOk)
    /\ UNCHANGED inflight

\* await ref.set(payload) resolves: the oldest write in flight lands.
MirrorSetDone ==
    /\ mirrorQueue # <<>>
    /\ LET w == Head(mirrorQueue) IN
       mirrorScores' =
           [p \in DOMAIN mirrorScores \cup {w.path} |->
               IF p = w.path THEN w.payload ELSE mirrorScores[p]]
    /\ mirrorQueue' = Tail(mirrorQueue)
    /\ UNCHANGED <<scoresFile, usersFile, rtdb, mirrorUsers, clock, last, subMax,
                   inflight>>

\* await ref.set(payload) rejects: the error is logged and the write is lost.
MirrorSetFailed ==
    /\ mirrorQueue # <<>>
    /\ mirrorQueue' = Tail(mirrorQueue)
    /\ UNCHANGED <<scoresFile, usersFile, rtdb, mirrorScores, mirrorUsers,
                   clock, last, subMax, inflight>>

----------------------------------------------------------------------------
(* GET /scores and GET /player/:name *)

\* The bounds and the default of the limit query parameter.
MinLimit == 1
MaxLimit == 200
DefaultLimit == 50

\* Math.min and Math.max: NaN when either argument is NaN.
MathMin(a, b) == IF a.nan \/ b.nan THEN NaN ELSE Fin(Min(a.n, b.n))
MathMax(a, b) == IF a.nan \/ b.nan THEN NaN ELSE Fin(Max(a.n, b.n))

\* Math.max(1, Math.min(200, Number(req.query.limit || 50)))
Limit(limit) ==
    MathMax(Fin(MinLimit),
            MathMin(Fin(MaxLimit),
                    ToNumber(IF Truthy(limit) THEN limit ELSE Num(DefaultLimit))))

\* One step of the stable sort: p goes after every element whose score is
\* not lower than its own.
RECURSIVE InsertByScore(_, _)
InsertByScore(sorted, p) ==
    IF sorted = <<>> THEN <<p>>
    ELSE IF Head(sorted).score - p.score >= 0
         THEN <<Head(sorted)>> \o InsertByScore(Tail(sorted), p)
         ELSE <<p>> \o sorted

\* arr.sort((a, b) => (b.score || 0) - (a.score || 0)); the sort is stable.
RECURSIVE SortByScore(_)
SortByScore(arr) ==
    IF arr = <<>> THEN <<>>
    ELSE InsertByScore(SortByScore(SubSeq(arr, 1, Len(arr) - 1)), arr[Len(arr)])

\* arr.slice(0, end): a NaN end counts as 0.
Slice(arr, end) ==
    IF end.nan \/ end.n <= 0 THEN <<>>
    ELSE SubSeq(arr, 1, Min(end.n, Len(arr)))

\* const { category = 'overall' } = req.query; String(category)
QueryCategory(category) ==
    JsString(IF category.t = "undefined" THEN Str(Overall) ELSE category)

\* The players /scores answers with: data.players.filter(...) sorted and
\* sliced.
TopScores(players, query) ==
    LET category == QueryCategory(query.category)
        OfCategory(p) == CategoryOf(p) = category
    IN Slice(SortByScore(SelectSeq(players, OfCategory)), Limit(query.limit))

\* app.get('/scores')
GetScores(query, readOk) ==
    /\ last' = Handled("scores", clock, query,
                        Ok(TopScores(LoadScores(readOk), query)), NoEnv)
    /\ UNCHANGED <<scoresFile, usersFile, rtdb, mirrorScores, mirrorUsers,
                   mirrorQueue, clock, subMax, inflight>>

\* The entries /player/:name answers with.
PlayerEntries(players, name) ==
    LET SameName(p) == ToLowerCase(p.name) = ToLowerCase(name)
    IN SelectSeq(players, SameName)

\* app.get('/player/:name')
GetPlayer(name, readOk) ==
    /\ last' = Handled("player", clock, name,
                        IF name = <<>> THEN Error(400, "Name required")
                        ELSE Ok(PlayerEntries(LoadScores(readOk), name)),
                        NoEnv)
    /\ UNCHANGED <<scoresFile, usersFile, rtdb, mirrorScores, mirrorUsers,
                   mirrorQueue, clock, subMax, inflight>>

----------------------------------------------------------------------------
(* The requests of the model *)

Easy == <<"e", "a", "s", "y">>

Body(name, score, category, timeSeconds, ptPercent, completedCounts) ==
    [name |-> name, score |-> score, category |-> category,
     completedCounts |-> completedCounts,
     num |-> [f \in NumericFields |->
                CASE f = "timeSeconds" -> timeSeconds
                  [] f = "ptPercent" -> ptPercent
                  [] OTHER -> Undef]]

Al == <<"A", "l">>
AlLower == <<"a", "l">>

\* One player under two spellings, and another player.
IdentityBodies ==
    {Body(Str(n), s, Undef, Undef, Undef, Undef) :
        n \in {Al, <<"a", "l", " ">>, <<"B", "o">>}, s \in {Num(1), Num(2)}}

\* The reserved name, and a name that is blank.
GuestBodies ==
    {Body(Str(n), Num(2), Undef, Undef, Undef, Undef) :
        n \in {<<"G", "u", "e", "s", "t">>, <<" ">>}}

\* Another category, and 'overall' under other spellings.
CategoryBodies ==
    {Body(Str(AlLower), Num(1), c, Undef, Undef, Undef) :
        c \in {Str(Easy), Str(<<>>), Str(Overall)}}

\* A score that is not a JSON number.
ScoreBodies ==
    {Body(Str(Al), s, Undef, Undef, Undef, Undef) : s \in {Str(<<"2">>)}}

\* Bodies the validation rejects.
InvalidBodies ==
    {Body(n, Num(1), Undef, Undef, Undef, Undef) :
        n \in {Str(<<>>), Undef, Num(7)}}
    \cup {Body(Str(Al), s, Undef, Num(1), Undef, Obj([k \in {"1"} |-> 2])) :
            s \in {Num(-1), Str(<<"x">>)}}

\* What a submission carries besides its score.
MergeBodies ==
    {Body(Str(AlLower), Num(2), Undef, Num(1), Undef, Undef),
     Body(Str(AlLower), Num(1), Undef, Num(2), Undef, Undef),
     Body(Str(AlLower), Num(1), Undef, Str(<<"x">>), Undef, Null),
     Body(Str(AlLower), Num(1), Undef, Undef, Num(150),
          Obj([k \in {"1"} |-> 2])),
     Body(Str(AlLower), Num(1), Undef, Undef, Undef, Obj([k \in {"1"} |-> 1])),
     Body(Str(AlLower), Num(1), Undef, Undef, Undef, Obj([k \in {"2"} |-> 1]))}

SubmitBodies ==
    IdentityBodies \cup GuestBodies \cup CategoryBodies \cup ScoreBodies
    \cup InvalidBodies \cup MergeBodies

ScoresQueries ==
    {[category |-> c, limit |-> Undef] : c \in {Undef, Str(Easy)}}
    \cup {[category |-> Undef, limit |-> Str(l)] :
            l \in {<<"1">>, <<"5", "0", "0">>, <<"a", "b", "c">>}}

PlayerNames == {<<"A", "L">>}

----------------------------------------------------------------------------
(* The score service: requests handled one after another, file I/O that
   succeeds, mirror writes that land or fail at any later time. *)

Init ==
    /\ scoresFile = <<>>
    /\ usersFile = <<>>
    /\ rtdb \in BOOLEAN
    /\ mirrorScores = <<>>
    /\ mirrorUsers = <<>>
    /\ mirrorQueue = <<>>
    /\ clock = 0
    /\ last = Handled("none", 0, Undef, Ok(<<>>), NoEnv)
    /\ subMax = <<>>
    /\ inflight = <<>>

Next ==
    \/ \E body \in SubmitBodies : Submit(body, TRUE, TRUE)
    \/ \E query \in ScoresQueries : GetScores(query, TRUE)
    \/ \E name \in PlayerNames : GetPlayer(name, TRUE)
    \/ MirrorSetDone
    \/ MirrorSetFailed

Spec == Init /\ [][Next]_vars

----------------------------------------------------------------------------
(* users.json, the /signup and /login handlers *)

\* loadUsers() and saveUsers(data), as loadScores() and saveScores(data).
LoadUsers(readOk) == IF readOk THEN usersFile ELSE <<>>
SaveUsers(data, writeOk) == IF writeOk THEN data ELSE usersFile

\* bcrypt.hash(password, 10): a hash that keeps its salt.
BcryptHash(password, salt) == [alg |-> "bcrypt", salt |-> salt, of |-> password]

\* bcrypt.compare(password, hash)
BcryptCompare(password, hash) == hash.alg = "bcrypt" /\ hash.of = password

\* FindUser comparing the display names.
FindUserByName(users, lower) ==
    LET hits == {i \in 1..Len(users) : users[i].name = lower}
    IN IF hits = {} THEN 0 ELSE CHOOSE i \in hits : \A j \in hits : i <= j

\* users.users.find(u => u.nameLower === lower): 0 when there is none.
FindUser(users, lower) ==
    LET hits == {i \in 1..Len(users) : users[i].nameLower = lower}
    IN IF hits = {} THEN 0 ELSE CHOOSE i \in hits : \A j \in hits : i <= j

\* getUserFromFirebase(nameLower): the stored value; null (here <<>>) when the
\* mirror is not configured, holds none, or the read throws.
GetUserFromFirebase(lower, get) ==
    IF rtdb /\ get = "ok" /\ lower \in DOMAIN mirrorUsers
    THEN <<mirrorUsers[lower]>>
    ELSE <<>>

\* saveUserToFirebase(user): the mirror after the awaited call.
SaveUserToFirebase(user, now, set) ==
    IF rtdb /\ user.nameLower # <<>> /\ set = "ok"
    THEN [l \in DOMAIN mirrorUsers \cup {user.nameLower} |->
            IF l = user.nameLower THEN [user EXCEPT !.updatedAt = now]
            ELSE mirrorUsers[l]]
    ELSE mirrorUsers

\* The first check of /signup and /login.
BadCredentialsBody(body) ==
    \/ ~Truthy(body.name) \/ body.name.t # "string"
    \/ ~Truthy(body.password) \/ body.password.t # "string"

\* if (!playerName) return res.status(400): the names /signup refuses.
RefusedName(playerName, isGuest) == playerName = <<>>

\* app.post('/signup'), handled without interleaving: get and set are what
\* the mirror does with the lookup and the write, salt is bcrypt's salt.
SignUp(body, get, set, salt, readOk, writeOk) ==
    /\ UNCHANGED <<scoresFile, rtdb, mirrorScores, mirrorQueue, subMax, inflight>>
    /\ IF BadCredentialsBody(body)
       THEN /\ last' = Handled("signup", clock, body,
                               Error(400, "Name and password required"), NoEnv)
            /\ UNCHANGED <<usersFile, mirrorUsers, clock>>
       ELSE
       LET playerName == PlayerName(body.name)
           isGuest == IsGuest(playerName)
       IN
       IF RefusedName(playerName, isGuest)
       THEN /\ last' = Handled("signup", clock, body,
                               Error(400, "Invalid name"), NoEnv)
            /\ UNCHANGED <<usersFile, mirrorUsers, clock>>
       ELSE
       LET users == LoadUsers(readOk)
           lower == ToLowerCase(playerName)
           local == FindUser(users, lower)
           lookup == rtdb /\ local = 0
           remote == IF lookup THEN GetUserFromFirebase(lower, get) ELSE <<>>
           exists == local > 0 \/ remote # <<>>
       IN
       IF exists
       THEN /\ last' = Handled("signup", clock, body,
                               Error(409, "User already exists"),
                               Env(IF lookup THEN get ELSE "none", "none"))
            /\ UNCHANGED <<usersFile, mirrorUsers, clock>>
       ELSE
       LET now == clock
           newUser == [name |-> playerName, nameLower |-> lower,
                       passwordHash |-> BcryptHash(body.password.s, salt),
                       createdAt |-> now, updatedAt |-> now]
           mirrored == ~isGuest /\ rtdb
       IN
       /\ clock < MaxClock
       /\ clock' = clock + 1
       /\ usersFile' = SaveUsers(Append(users, newUser), writeOk)
       /\ mirrorUsers' = IF ~isGuest THEN SaveUserToFirebase(newUser, now, set)
                         ELSE mirrorUsers
       /\ last' = Handled("signup", clock, body, Ok(playerName),
                          Env(IF lookup THEN get ELSE "none",
                              IF mirrored THEN set ELSE "none"))

\* UnknownUser telling the caller that the name has no account.
UnknownUserNotFound == Error(404, "User not found")

\* if (!user) return res.status(401).json({ error: 'Invalid credentials' })
UnknownUser == Error(401, "Invalid credentials")

\* if (!ok) return res.status(401).json({ error: 'Invalid credentials' })
WrongPassword == Error(401, "Invalid credentials")

\* app.post('/login')
LogIn(body, get, readOk) ==
    /\ UNCHANGED <<scoresFile, usersFile, rtdb, mirrorScores, mirrorUsers,
                   mirrorQueue, clock, subMax, inflight>>
    /\ IF BadCredentialsBody(body)
       THEN last' = Handled("login", clock, body,
                            Error(400, "Name and password required"), NoEnv)
       ELSE
       LET playerName == PlayerName(body.name)
           users == LoadUsers(readOk)
           lower == ToLowerCase(playerName)
           remote == GetUserFromFirebase(lower, get)
           local == FindUser(users, lower)
           user == IF remote # <<>> THEN remote
                   ELSE IF local > 0 THEN <<users[local]>> ELSE <<>>
           env == Env(IF rtdb THEN get ELSE "none", "none")
       IN
       IF user = <<>>
       THEN last' = Handled("login", clock, body, UnknownUser, env)
       ELSE IF ~BcryptCompare(body.password.s, user[1].passwordHash)
       THEN last' = Handled("login", clock, body, WrongPassword, env)
       ELSE last' = Handled("login", clock, body, Ok(user[1].name), env)

\* The credentials of the model.
Credentials(name, password) == [name |-> name, password |-> password]

Secret == <<"p">>
Bo == <<"B", "o">>

SignUpBodies ==
    {Credentials(n, Str(Secret)) :
        n \in {Str(Al), Str(<<"a", "l", " ">>), Str(Bo),
               Str(<<"G", "u", "e", "s", "t">>), Str(<<" ">>), Undef}}
    \cup {Credentials(Str(Al), pw) : pw \in {Undef, Str(<<>>)}}

LogInBodies ==
    {Credentials(Str(n), Str(pw)) :
        n \in {<<"A", "L">>, Bo, <<"g", "u", "e", "s", "t">>},
        pw \in {Secret, <<"q">>}}
    \cup {Credentials(Undef, Str(Secret))}

Salts == {1, 2}
MirrorOutcomes == {"ok", "error"}

\* An account another server sharing the mirror has registered.
RemoteAccount ==
    [name |-> Bo, nameLower |-> ToLowerCase(Bo),
     passwordHash |-> BcryptHash(Secret, 1), createdAt |-> 0, updatedAt |-> 0]

\* The account service starts with an empty users.json; the mirror, which
\* outlives the file and is shared, may already hold an account.
AccountInit ==
    /\ scoresFile = <<>>
    /\ usersFile = <<>>
    /\ rtdb \in BOOLEAN
    /\ mirrorScores = <<>>
    /\ mirrorUsers \in
          IF rtdb
          THEN {<<>>, [l \in {RemoteAccount.nameLower} |-> RemoteAccount]}
          ELSE {<<>>}
    /\ mirrorQueue = <<>>
    /\ clock = 0
    /\ last = Handled("none", 0, Undef, Ok(<<>>), NoEnv)
    /\ subMax = <<>>
    /\ inflight = <<>>

AccountNext ==
    \/ \E body \in SignUpBodies, get \in MirrorOutcomes, set \in MirrorOutcomes,
          salt \in Salts :
          SignUp(body, get, set, salt, TRUE, TRUE)
    \/ \E body \in LogInBodies, get \in MirrorOutcomes : LogIn(body, get, TRUE)

\* The account service: requests handled one after another, file I/O that
\* succeeds, a mirror that may fail any call.
AccountSpec == AccountInit /\ [][AccountNext]_vars

----------------------------------------------------------------------------
(* Properties of the score service *)

\* The key of a stored record: (lowercased name, category).
RecordKey(p) == <<ToLowerCase(p.name), CategoryOf(p)>>

\* The stored records with a key.
Stored(key) == {i \in 1..Len(scoresFile) : RecordKey(scoresFile[i]) = key}

\* The last request was a /submit answered { ok: true }.
LastSubmitOk == last.op = "submit" /\ last.res.status = 200 /\ last.res.ok

\* The key the last acknowledged /submit addressed.
LastKey == KeyOf(Trim(last.req.name.s), Category(last.req.category))

\* This step handles a /submit.
SubmitStep == last'.op = "submit" /\ last' # last

\* C1: every stored record's score is the highest score of the acknowledged
\* submissions to its key, whatever their order, and every key that is not
\* the guest's and has an acknowledged submission has a record.
C1_ScoreIsMaxSubmitted ==
    /\ \A i \in 1..Len(scoresFile) :
          /\ RecordKey(scoresFile[i]) \in DOMAIN subMax
          /\ scoresFile[i].score = subMax[RecordKey(scoresFile[i])]
    /\ \A key \in DOMAIN subMax :
          key[1] \notin {GuestName, <<>>} => Stored(key) # {}

\* A lower score has just been submitted to a key that holds a higher one.
C1_Witness ==
    /\ LastSubmitOk
    /\ \E i \in Stored(LastKey) :
          ToNumber(last.req.score).n < scoresFile[i].score

\* C2: a stored count is never lowered or removed by a later step: each key k
\* of a record's completedCounts stays, with a value at least as high.
C2_CountsNeverLowered ==
    [][\A i \in 1..Len(scoresFile) :
          LET counts == scoresFile[i].completedCounts IN
          counts.t = "object" =>
             \A k \in DOMAIN counts.m :
                \E j \in 1..Len(scoresFile') :
                   /\ RecordKey(scoresFile'[j]) = RecordKey(scoresFile[i])
                   /\ scoresFile'[j].completedCounts.t = "object"
                   /\ k \in DOMAIN scoresFile'[j].completedCounts.m
                   /\ scoresFile'[j].completedCounts.m[k] >= counts.m[k]]_vars

\* A request body with a name and a score that parses to a finite number >= 0.
ValidSubmit(body) ==
    /\ body.name.t = "string" /\ body.name.s # <<>>
    /\ ~ToNumber(body.score).nan /\ ToNumber(body.score).n >= 0

\* C3: a valid /submit with a score below the stored one is answered
\* { ok: true }, leaves the stored score, sets updatedAt to the time of the
\* submission and replaces every numeric field it supplies as a finite number.
C3_LowerScoreSubmit ==
    [][\A i \in 1..Len(scoresFile) :
          (/\ SubmitStep
           /\ ValidSubmit(last'.req)
           /\ RecordKey(scoresFile[i])
                 = KeyOf(Trim(last'.req.name.s), Category(last'.req.category))
           /\ ToNumber(last'.req.score).n < scoresFile[i].score)
          =>
          /\ last'.res = Ok(<<>>)
          /\ Len(scoresFile') = Len(scoresFile)
          /\ scoresFile'[i].score = scoresFile[i].score
          /\ scoresFile'[i].updatedAt = last'.at
          /\ \A f \in NumericFields :
                IsFiniteNumber(last'.req.num[f]) =>
                   scoresFile'[i].num[f] = Val(ToNumber(last'.req.num[f]).n)]_vars

\* A lower score arrived with a new timeSeconds: the score stayed, the
\* record is older than its last update, timeSeconds is the one submitted.
C3_Witness ==
    /\ LastSubmitOk
    /\ IsFiniteNumber(last.req.num["timeSeconds"])
    /\ \E i \in Stored(LastKey) :
          /\ ToNumber(last.req.score).n < scoresFile[i].score
          /\ scoresFile[i].createdAt < scoresFile[i].updatedAt
          /\ scoresFile[i].updatedAt = last.at
          /\ scoresFile[i].num["timeSeconds"]
                = Val(ToNumber(last.req.num["timeSeconds"]).n)

\* C4: the store holds at most one record per (lowercased trimmed name,
\* category).
C4_OneRecordPerKey ==
    \A i, j \in 1..Len(scoresFile) :
        (/\ ToLowerCase(Trim(scoresFile[i].name))
               = ToLowerCase(Trim(scoresFile[j].name))
         /\ CategoryOf(scoresFile[i]) = CategoryOf(scoresFile[j]))
        => i = j

\* A submission spelled otherwise than the stored name, with no category,
\* has updated the one record of its key, an 'overall' record.
C4_Witness ==
    /\ LastSubmitOk
    /\ last.req.category = Undef
    /\ \E i \in Stored(LastKey) :
          /\ scoresFile[i].name # Trim(last.req.name.s)
          /\ scoresFile[i].category = Overall
          /\ scoresFile[i].updatedAt = last.at
          /\ Cardinality(Stored(LastKey)) = 1

\* The name of a request body, trimmed and lowercased, is "guest".
GuestBody(body) ==
    body.name.t = "string" /\ ToLowerCase(Trim(body.name.s)) = GuestName

\* No record named "guest" is in the store, in the mirror or on its way to
\* it, nor in any answer of /scores or /player/:name.
NoGuestRecord ==
    /\ \A i \in 1..Len(scoresFile) :
          ToLowerCase(scoresFile[i].name) # GuestName
    /\ \A path \in DOMAIN mirrorScores : path[2] # GuestName
    /\ \A i \in 1..Len(mirrorQueue) : mirrorQueue[i].path[2] # GuestName
    /\ \A query \in ScoresQueries :
          LET top == TopScores(scoresFile, query) IN
          \A i \in 1..Len(top) : ToLowerCase(top[i].name) # GuestName
    /\ \A name \in PlayerNames \cup {GuestName} :
          LET entries == PlayerEntries(scoresFile, name) IN
          \A i \in 1..Len(entries) : ToLowerCase(entries[i].name) # GuestName

RejectedSubmit(body) ==
    \/ body.name.t # "string"
    \/ ToNumber(body.score).nan
    \/ ToNumber(body.score).n < 0

\* C6: a /submit the validation rejects is answered 400 and leaves the store
\* and the mirror as they were.
C6_RejectedSubmitWritesNothing ==
    [][(SubmitStep /\ RejectedSubmit(last'.req))
       => /\ last'.res.status = 400
          /\ ~last'.res.ok
          /\ UNCHANGED <<scoresFile, mirrorScores, mirrorQueue>>]_vars

\* A negative score, sent with counts and timeSeconds to a player who has a
\* record, has just been rejected.
C6_Witness ==
    /\ last.op = "submit"
    /\ last.res.status = 400
    /\ last.req.name.t = "string"
    /\ ~ToNumber(last.req.score).nan
    /\ ToNumber(last.req.score).n < 0
    /\ rtdb
    /\ Stored(KeyOf(Trim(last.req.name.s), Category(last.req.category))) # {}

\* The size of the Reference Catalog.
CatalogSize == 10

\* percentOfCatalog(counts): round(100 * distinct keys / catalog size),
\* clamped to [0, 100]; 0 for an absent or empty map.
PercentOfCatalog(completedCounts) ==
    IF completedCounts.t # "object" \/ CatalogSize = 0 THEN 0
    ELSE LET keys == Cardinality(DOMAIN completedCounts.m)
             rounded == (200 * keys + CatalogSize) \div (2 * CatalogSize)
         IN Max(0, Min(100, rounded))

\* C9: a stored ptPercent is the percentage the server derives from the
\* record's completedCounts, hence within [0, 100], whatever the client sent.
C9_PtPercentIsDerived ==
    \A i \in 1..Len(scoresFile) :
        LET pt == scoresFile[i].num["ptPercent"] IN
        pt.has =>
           /\ pt.n = PercentOfCatalog(scoresFile[i].completedCounts)
           /\ 0 <= pt.n /\ pt.n <= 100

\* The category a /scores query asks for: 'overall' when it names none.
AskedCategory(query) ==
    IF query.category.t = "undefined" THEN Overall ELSE query.category.s

\* The stored records of a category.
InCategory(category) ==
    {i \in 1..Len(scoresFile) : CategoryOf(scoresFile[i]) = category}

\* C10: /scores answers with records of the category asked for only, by
\* score non-increasing, and with exactly min(L, records in the category) of
\* them for a limit L within [1, 200] that is 50 when the query has none.
C10_ScoresAnswer ==
    last.op = "scores" =>
       LET top == last.res.data
           n == Cardinality(InCategory(AskedCategory(last.req)))
       IN
       /\ \A i \in 1..Len(top) : CategoryOf(top[i]) = AskedCategory(last.req)
       /\ \A i \in 1..(Len(top) - 1) : top[i].score >= top[i + 1].score
       /\ \E L \in MinLimit..MaxLimit :
             /\ last.req.limit.t = "undefined" => L = DefaultLimit
             /\ Len(top) = Min(L, n)

\* This step handles a /submit answered { ok: true } that addresses the key.
AcceptedFor(key) ==
    /\ SubmitStep
    /\ last'.res.ok
    /\ KeyOf(Trim(last'.req.name.s), Category(last'.req.category)) = key

\* C11: a /submit whose completedCounts shares no key with the stored map of
\* its record leaves a map that holds every key of both, each with its value:
\* the stored keys are retained unchanged, the incoming ones are added.
C11_DisjointCountsUnion ==
    [][\A i \in 1..Len(scoresFile) :
          LET old == scoresFile[i].completedCounts IN
          (/\ AcceptedFor(RecordKey(scoresFile[i]))
           /\ old.t = "object"
           /\ last'.req.completedCounts.t = "object"
           /\ DOMAIN old.m \cap DOMAIN last'.req.completedCounts.m = {})
          =>
          LET new == last'.req.completedCounts
              now == scoresFile'[i].completedCounts
          IN
          /\ now.t = "object"
          /\ DOMAIN now.m = DOMAIN old.m \cup DOMAIN new.m
          /\ \A k \in DOMAIN old.m : now.m[k] = old.m[k]
          /\ \A k \in DOMAIN new.m : now.m[k] = new.m[k]]_vars

\* C16: a record is created with createdAt and updatedAt at the time of the
\* submission that creates it; afterwards createdAt never changes, and
\* updatedAt changes exactly on an acknowledged submission to the record's
\* key, to the time of that submission.
C16_CreatedOnceUpdatedLast ==
    [][/\ \A i \in 1..Len(scoresFile) :
             \E j \in 1..Len(scoresFile') :
                /\ RecordKey(scoresFile'[j]) = RecordKey(scoresFile[i])
                /\ scoresFile'[j].createdAt = scoresFile[i].createdAt
                /\ scoresFile'[j].updatedAt =
                      IF AcceptedFor(RecordKey(scoresFile[i]))
                      THEN last'.at
                      ELSE scoresFile[i].updatedAt
       /\ \A j \in 1..Len(scoresFile') :
             Stored(RecordKey(scoresFile'[j])) = {} =>
                /\ AcceptedFor(RecordKey(scoresFile'[j]))
                /\ scoresFile'[j].createdAt = last'.at
                /\ scoresFile'[j].updatedAt = last'.at]_vars

\* A record created by one submission has just been updated by a later one
\* with a score at least as high, next to nothing else changing its key.
C16_Witness ==
    /\ LastSubmitOk
    /\ \E i \in Stored(LastKey) :
          /\ scoresFile[i].createdAt < scoresFile[i].updatedAt
          /\ scoresFile[i].updatedAt = last.at
          /\ scoresFile[i].score = ToNumber(last.req.score).n

\* A name that is a string and is empty once trimmed.
BlankName(body) == body.name.t = "string" /\ Trim(body.name.s) = <<>>

\* C17: a /submit whose name is empty after trimming is answered 400 and is
\* not acknowledged.
C17_BlankNameRejected ==
    (last.op = "submit" /\ BlankName(last.req))
    => (last.res.status = 400 /\ ~last.res.ok)

\* The snapshot fields: the numeric fields but the score and ptPercent.
SnapshotFields ==
    {"moleculesAvailable", "molPercent", "electronsGathered", "deaths",
     "longestStreak", "timeSeconds", "bankTotal", "atomsCreated"}

\* The snapshot of the record stored under a key: every field unset when
\* the key has no record.
SnapshotOf(key) ==
    IF Stored(key) = {} THEN [f \in NumericFields |-> Absent]
    ELSE scoresFile[CHOOSE i \in Stored(key) : TRUE].num

\* C18: each snapshot field of a stored record is replaced by an acknowledged
\* submission to its key that supplies a finite number for this field, with
\* that number whether higher or lower, and is left as it was by every other
\* step, a submission omitting the field included.
C18_SnapshotLatestWins ==
    [][\A j \in 1..Len(scoresFile') :
          \A key \in {RecordKey(scoresFile'[j])} :
          \A before \in {SnapshotOf(key)} :
          \A after \in {scoresFile'[j].num} :
             IF AcceptedFor(key)
             THEN \A f \in SnapshotFields :
                     after[f] = IF IsFiniteNumber(last'.req.num[f])
                                THEN Val(ToNumber(last'.req.num[f]).n)
                                ELSE before[f]
             ELSE \A f \in SnapshotFields : after[f] = before[f]]_vars

\* A submission without timeSeconds has just been acknowledged for a record
\* that holds a timeSeconds from an earlier one.
C18_Witness ==
    /\ LastSubmitOk
    /\ last.req.num["timeSeconds"] = Undef
    /\ \E i \in Stored(LastKey) :
          /\ scoresFile[i].num["timeSeconds"].has
          /\ scoresFile[i].updatedAt = last.at
          /\ scoresFile[i].createdAt < last.at

----------------------------------------------------------------------------
(* Properties of the account service *)

\* This step handles a /signup.
SignUpStep == last'.op = "signup" /\ last' # last

\* A /signup body with a name and a password, the name not blank.
WellFormedSignUp(body) ==
    /\ body.name.t = "string" /\ Trim(body.name.s) # <<>>
    /\ body.password.t = "string" /\ body.password.s # <<>>

\* C7: no account is ever stored, locally or in the mirror, under the
\* reserved name "guest" or under an empty name.
C7_GuestNeverRegistered ==
    /\ \A i \in 1..Len(usersFile) :
          usersFile[i].nameLower \notin {GuestName, <<>>}
    /\ \A lower \in DOMAIN mirrorUsers : lower \notin {GuestName, <<>>}

\* No two accounts of users.json share a nameLower.
NoDuplicateAccount ==
    \A i, j \in 1..Len(usersFile) :
        usersFile[i].nameLower = usersFile[j].nameLower => i = j

\* An account is stored locally under the lowercased name.
InUsersFile(lower) == \E i \in 1..Len(usersFile) : usersFile[i].nameLower = lower

\* C8 as stated: a /signup whose lowercased name is already in users.json or,
\* with a mirror configured, in the mirror, is answered 409 and stores
\* nothing; users.json never holds two accounts with one nameLower.
C8_ConflictWheneverExists ==
    /\ []NoDuplicateAccount
    /\ [][(/\ SignUpStep
           /\ WellFormedSignUp(last'.req)
           /\ LET lower == ToLowerCase(Trim(last'.req.name.s)) IN
              InUsersFile(lower) \/ (rtdb /\ lower \in DOMAIN mirrorUsers))
          => /\ last'.res.status = 409
             /\ UNCHANGED <<usersFile, mirrorUsers>>]_vars

\* C8 as amended: the mirror counts when its lookup returns the account; a
\* lookup that fails finds none.
C8_ConflictWheneverFound ==
    /\ []NoDuplicateAccount
    /\ [][(/\ SignUpStep
           /\ WellFormedSignUp(last'.req)
           /\ LET lower == ToLowerCase(Trim(last'.req.name.s)) IN
              \/ InUsersFile(lower)
              \/ rtdb /\ lower \in DOMAIN mirrorUsers /\ last'.env.get = "ok")
          => /\ last'.res.status = 409
             /\ UNCHANGED <<usersFile, mirrorUsers>>]_vars

\* A name the mirror holds and users.json does not has just been refused,
\* while users.json holds another account.
C8_Witness ==
    /\ last.op = "signup"
    /\ last.res.status = 409
    /\ last.env.get = "ok"
    /\ usersFile # <<>>
    /\ LET lower == ToLowerCase(Trim(last.req.name.s)) IN
       lower \in DOMAIN mirrorUsers /\ ~InUsersFile(lower)

\* The name of a /login body is registered: in users.json or, when one is
\* configured, in the mirror.
Registered(body) ==
    LET lower == ToLowerCase(Trim(body.name.s)) IN
    InUsersFile(lower) \/ (rtdb /\ lower \in DOMAIN mirrorUsers)

\* C14: a /login with a name and a password that fails is answered with one
\* response, 401 { error: 'Invalid credentials' }, whether the name is
\* registered or not, with or without a mirror, whatever the mirror lookup
\* did: a registered name is answered as an unknown one is, and an unknown
\* name as a wrong password is.
C14_FailedLogInIsUniform ==
    (last.op = "login" /\ ~BadCredentialsBody(last.req) /\ ~last.res.ok)
    => /\ last.res.status = 401
       /\ last.res = Error(401, "Invalid credentials")
       /\ Registered(last.req) => last.res = UnknownUser
       /\ ~Registered(last.req) => last.res = WrongPassword

\* A wrong password for a name registered in users.json under another
\* casing has just been refused.
C14_Witness ==
    /\ last.op = "login"
    /\ last.res.status = 401
    /\ InUsersFile(ToLowerCase(Trim(last.req.name.s)))
    /\ last.req.name.s # usersFile[1].name
    /\ \E i \in 1..Len(usersFile) :
          /\ usersFile[i].nameLower = ToLowerCase(Trim(last.req.name.s))
          /\ usersFile[i].passwordHash.of # last.req.password.s

----------------------------------------------------------------------------
(* The score service with a scores.json that may fail to be read or parsed,
   and fail to be written, in any request. *)

FaultBodies == IdentityBodies \cup GuestBodies

FaultNext ==
    \/ \E body \in FaultBodies, readOk \in BOOLEAN, writeOk \in BOOLEAN :
          Submit(body, readOk, writeOk)
    \/ \E query \in ScoresQueries, readOk \in BOOLEAN : GetScores(query, readOk)
    \/ \E name \in PlayerNames, readOk \in BOOLEAN : GetPlayer(name, readOk)
    \/ MirrorSetDone
    \/ MirrorSetFailed

FaultSpec == Init /\ [][FaultNext]_vars

\* C12: a /submit that is not the guest's and is answered { ok: true } has
\* its merged record in scores.json: a record of its key, updated at the time
\* of the submission, with a score at least the submitted one. A write that
\* fails is therefore never acknowledged.
C12_AcknowledgedIsStored ==
    (LastSubmitOk /\ ~IsGuest(Trim(last.req.name.s)))
    => \E i \in Stored(LastKey) :
          /\ scoresFile[i].updatedAt = last.at
          /\ scoresFile[i].score >= ToNumber(last.req.score).n

\* C15: no step removes a record from scores.json: every key stored before a
\* step is stored after it, also when the step fails to read or to parse the
\* file.
C15_RecordNeverRemoved ==
    [][\A i \in 1..Len(scoresFile) :
          \E j \in 1..Len(scoresFile') :
             RecordKey(scoresFile'[j]) = RecordKey(scoresFile[i])]_vars

----------------------------------------------------------------------------
(* Concurrent requests. The server is one Node.js process: a handler runs
   from one suspension point (an await that waits for I/O or for a timer) to
   the next, and between two of them the handler of another request may run. *)

\* The number of requests a run receives.
MaxRequests == 2

\* A request received, whose handler has not started; data, now and env are
\* the handler's local variables, res is the response once stage is "done".
Request(op, body) ==
    [op |-> op, body |-> body, stage |-> "received", data |-> <<>>,
     now |-> 0, env |-> NoEnv, res |-> Ok(<<>>)]

\* A request arrives.
Receive(op, body) ==
    /\ Len(inflight) < MaxRequests
    /\ inflight' = Append(inflight, Request(op, body))
    /\ UNCHANGED <<scoresFile, usersFile, rtdb, mirrorScores, mirrorUsers,
                   mirrorQueue, clock, last, subMax>>

\* SubmitAwaits for a handler reading the file with an awaited call.
SubmitAwaitsLoad == {"loadScores"}

\* The calls at which the /submit handler gives up control: none. The
\* handler is not an async function, loadScores() and saveScores() use
\* fs.readFileSync and fs.writeFileSync, saveScoreToFirebase() is not awaited.
SubmitAwaits == {}

\* The handler of /submit reaches loadScores().
ReachesLoad(body) ==
    ~InvalidName(body.name) /\ ~InvalidScore(ToNumber(body.score))

\* The event loop runs the /submit handler of request r up to its next
\* suspension point, or to its response.
RunSubmit(r) ==
    /\ inflight[r].op = "submit"
    /\ inflight[r].stage \in {"received", "loaded"}
    /\ IF /\ inflight[r].stage = "received"
          /\ "loadScores" \in SubmitAwaits
          /\ ReachesLoad(inflight[r].body)
       THEN /\ inflight' = [inflight EXCEPT ![r].stage = "loaded",
                                            ![r].data = LoadScores(TRUE)]
            /\ UNCHANGED <<scoresFile, usersFile, rtdb, mirrorScores,
                           mirrorUsers, mirrorQueue, clock, last, subMax>>
       ELSE /\ SubmitWith(inflight[r].body,
                          IF inflight[r].stage = "received"
                          THEN LoadScores(TRUE)
                          ELSE inflight[r].data,
                          TRUE)
            /\ inflight' = [inflight EXCEPT ![r].stage = "done",
                                            ![r].now = last'.at,
                                            ![r].res = last'.res]

\* The bodies of concurrent submissions: one player under two spellings,
\* another player, the guest, a body the validation rejects.
RaceBodies ==
    IdentityBodies \cup GuestBodies
    \cup {Body(Str(Al), Num(-1), Undef, Undef, Undef, Undef)}

SubmitRaceNext ==
    \/ \E body \in RaceBodies : Receive("submit", body)
    \/ \E r \in 1..Len(inflight) : RunSubmit(r)
    \/ MirrorSetDone
    \/ MirrorSetFailed

\* The score service with requests that arrive while others wait to be
\* handled, handled in any order.
SubmitRaceSpec == Init /\ [][SubmitRaceNext]_vars

\* Request r is a /submit answered { ok: true } that is not the guest's.
AcknowledgedSubmit(r) ==
    /\ inflight[r].op = "submit"
    /\ inflight[r].stage = "done"
    /\ inflight[r].res.ok
    /\ ~IsGuest(PlayerName(inflight[r].body.name))

\* The key request r addresses, and the score it submits.
KeyOfRequest(r) ==
    KeyOf(PlayerName(inflight[r].body.name), Category(inflight[r].body.category))
ScoreOfRequest(r) == ToNumber(inflight[r].body.score).n

\* C19: whatever the order in which concurrent /submit requests arrive and
\* are handled, every acknowledged submission that is not the guest's has a
\* record of its key, and the score of every record is the highest score of
\* the acknowledged submissions to its key: none of them is lost.
C19_NoLostUpdate ==
    /\ \A r \in 1..Len(inflight) :
          AcknowledgedSubmit(r) => Stored(KeyOfRequest(r)) # {}
    /\ \A i \in 1..Len(scoresFile) :
          LET acked == {r \in 1..Len(inflight) :
                          /\ AcknowledgedSubmit(r)
                          /\ KeyOfRequest(r) = RecordKey(scoresFile[i])}
          IN /\ \E r \in acked : ScoreOfRequest(r) = scoresFile[i].score
             /\ \A r \in acked : ScoreOfRequest(r) <= scoresFile[i].score

\* Two submissions to one key were both waiting; the one received last, with
\* the higher score, was handled first, and both are acknowledged.
C19_Witness ==
    /\ Len(inflight) = 2
    /\ AcknowledgedSubmit(1) /\ AcknowledgedSubmit(2)
    /\ KeyOfRequest(1) = KeyOfRequest(2)
    /\ inflight[2].now < inflight[1].now
    /\ ScoreOfRequest(1) < ScoreOfRequest(2)

----------------------------------------------------------------------------
(* Concurrent /signup requests. The handler is an async function that gives
   up control at await getUserFromFirebase(lower), at await bcrypt.hash() and
   at await saveUserToFirebase(newUser) (there at its await ref.set()). *)

\* res.json() or res.status().json() of the /signup handler of request r.
Respond(r, at, res, env) ==
    /\ inflight' = [inflight EXCEPT ![r].stage = "done",
                                    ![r].res = res,
                                    ![r].env = env]
    /\ last' = Handled("signup", at, inflight[r].body, res, env)

\* Request r is a /signup whose handler is at the stage.
SignUpAt(r, stage) == inflight[r].op = "signup" /\ inflight[r].stage = stage

\* The handler of request r runs from its start to its first await: the
\* validation, loadUsers() and the lookup in its copy of users.json.
SignUpBegin(r) ==
    /\ SignUpAt(r, "received")
    /\ UNCHANGED <<scoresFile, usersFile, rtdb, mirrorScores, mirrorUsers,
                   mirrorQueue, clock, subMax>>
    /\ LET body == inflight[r].body IN
       IF BadCredentialsBody(body)
       THEN Respond(r, clock, Error(400, "Name and password required"), NoEnv)
       ELSE
       LET playerName == PlayerName(body.name)
           users == LoadUsers(TRUE)
           local == FindUser(users, ToLowerCase(playerName))
       IN
       IF RefusedName(playerName, IsGuest(playerName))
       THEN Respond(r, clock, Error(400, "Invalid name"), NoEnv)
       ELSE IF rtdb /\ local = 0
       THEN /\ inflight' = [inflight EXCEPT ![r].stage = "lookup",
                                            ![r].data = users]
            /\ UNCHANGED last
       ELSE IF local > 0
       THEN Respond(r, clock, Error(409, "User already exists"), NoEnv)
       ELSE /\ inflight' = [inflight EXCEPT ![r].stage = "hash",
                                            ![r].data = users]
            /\ UNCHANGED last

\* await getUserFromFirebase(lower) returns to the handler of request r.
SignUpLookupDone(r, get) ==
    /\ SignUpAt(r, "lookup")
    /\ UNCHANGED <<scoresFile, usersFile, rtdb, mirrorScores, mirrorUsers,
                   mirrorQueue, clock, subMax>>
    /\ LET lower == ToLowerCase(PlayerName(inflight[r].body.name))
           remote == GetUserFromFirebase(lower, get)
       IN
       IF remote # <<>>
       THEN Respond(r, clock, Error(409, "User already exists"),
                    Env(get, "none"))
       ELSE /\ inflight' = [inflight EXCEPT ![r].stage = "hash",
                                            ![r].env = Env(get, "none")]
            /\ UNCHANGED last

\* await bcrypt.hash(password, 10) returns to the handler of request r, which
\* pushes the account onto its copy of users.json, writes the copy and, for a
\* name that is not the guest's, calls saveUserToFirebase(newUser).
SignUpHashDone(r, salt) ==
    /\ SignUpAt(r, "hash")
    /\ UNCHANGED <<scoresFile, rtdb, mirrorScores, mirrorUsers, mirrorQueue,
                   subMax>>
    /\ LET body == inflight[r].body
           playerName == PlayerName(body.name)
           now == clock
           newUser == [name |-> playerName,
                       nameLower |-> ToLowerCase(playerName),
                       passwordHash |-> BcryptHash(body.password.s, salt),
                       createdAt |-> now, updatedAt |-> now]
           users == Append(inflight[r].data, newUser)
       IN
       /\ clock < MaxClock
       /\ clock' = clock + 1
       /\ usersFile' = SaveUsers(users, TRUE)
       /\ IF ~IsGuest(playerName) /\ rtdb
          THEN /\ inflight' = [inflight EXCEPT ![r].stage = "set",
                                               ![r].data = users,
                                               ![r].now = now]
               /\ UNCHANGED last
          ELSE Respond(r, now, Ok(playerName), inflight[r].env)

\* await ref.set(payload) of saveUserToFirebase resolves or rejects, and the
\* handler of request r sends its response.
SignUpSetDone(r, set) ==
    /\ SignUpAt(r, "set")
    /\ UNCHANGED <<scoresFile, usersFile, rtdb, mirrorScores, mirrorQueue,
                   clock, subMax>>
    /\ LET newUser == inflight[r].data[Len(inflight[r].data)] IN
       /\ mirrorUsers' = SaveUserToFirebase(newUser, inflight[r].now, set)
       /\ Respond(r, inflight[r].now, Ok(newUser.name),
                  Env(inflight[r].env.get, set))

\* The bodies of concurrent sign-ups: one name under two spellings, another
\* name, the reserved name, a body without a name.
SignUpRaceBodies ==
    {Credentials(n, Str(Secret)) :
        n \in {Str(Al), Str(<<"a", "l", " ">>), Str(Bo),
               Str(<<"G", "u", "e", "s", "t">>), Undef}}

SignUpRaceNext ==
    \/ \E body \in SignUpRaceBodies : Receive("signup", body)
    \/ \E r \in 1..Len(inflight) : SignUpBegin(r)
    \/ \E r \in 1..Len(inflight), get \in MirrorOutcomes : SignUpLookupDone(r, get)
    \/ \E r \in 1..Len(inflight), salt \in Salts : SignUpHashDone(r, salt)
    \/ \E r \in 1..Len(inflight), set \in MirrorOutcomes : SignUpSetDone(r, set)

\* The account service with sign-ups that arrive while others are suspended.
SignUpRaceSpec == AccountInit /\ [][SignUpRaceNext]_vars

\* Request r has written its account to users.json and waits for the mirror
\* to answer the write.
MirrorWritePending(r) == SignUpAt(r, "set")

\* Request r has been answered.
Responded(r) == inflight[r].stage = "done"

\* C13: the response of a request does not wait for the mirror write: a
\* request whose record is written locally and whose mirror write has not
\* finished has been answered.
C13_ResponseNotDelayed ==
    \A r \in 1..Len(inflight) : MirrorWritePending(r) => Responded(r)

\* Request r is a /signup answered { ok: true }.
AcknowledgedSignUp(r) ==
    /\ inflight[r].op = "signup"
    /\ Responded(r)
    /\ inflight[r].res.ok

\* The lowercased name request r signs up.
LowerOfRequest(r) == ToLowerCase(PlayerName(inflight[r].body.name))

\* C20: once every sign-up received is answered, each one answered
\* { ok: true } has its account in users.json, and no two of them are for the
\* same lowercased name.
C20_SignUpsKeptAndUnique ==
    (\A r \in 1..Len(inflight) : Responded(r))
    => /\ \A r \in 1..Len(inflight) :
             AcknowledgedSignUp(r) => InUsersFile(LowerOfRequest(r))
       /\ \A r, s \in 1..Len(inflight) :
             (/\ AcknowledgedSignUp(r) /\ AcknowledgedSignUp(s)
              /\ LowerOfRequest(r) = LowerOfRequest(s))
             => r = s

----------------------------------------------------------------------------
(* The score service started on a scores.json that an earlier run of the
   server has written. *)

\* The records an earlier run stored, before this run's clock started: one
\* of another player, one of the player in another category.
EarlierRecords ==
    <<NewEntry(Bo, Overall, Body(Str(Bo), Num(1), Undef, Num(1), Undef, Undef),
               1, -1),
      NewEntry(AlLower, Easy,
               Body(Str(AlLower), Num(2), Str(Easy), Undef, Undef, Undef),
               2, -1)>>

\* Submissions of one player in two categories and under two spellings, of
\* the player stored earlier, and of the guest.
FrameBodies == IdentityBodies \cup CategoryBodies \cup GuestBodies

FrameInit ==
    /\ scoresFile = EarlierRecords
    /\ usersFile = <<>>
    /\ rtdb \in BOOLEAN
    /\ mirrorScores = <<>>
    /\ mirrorUsers = <<>>
    /\ mirrorQueue = <<>>
    /\ clock = 0
    /\ last = Handled("none", 0, Undef, Ok(<<>>), NoEnv)
    /\ subMax = [key \in {RecordKey(EarlierRecords[i]) : i \in {1, 2}} |->
                    IF key = RecordKey(EarlierRecords[1])
                    THEN EarlierRecords[1].score
                    ELSE EarlierRecords[2].score]
    /\ inflight = <<>>

FrameNext ==
    \/ \E body \in FrameBodies : Submit(body, TRUE, TRUE)
    \/ MirrorSetDone
    \/ MirrorSetFailed

FrameSpec == FrameInit /\ [][FrameNext]_vars

\* C21: a /submit answered { ok: true } for a key leaves every stored record
\* of another key (another lowercased name or another category) identical
\* and at its position, keeps the records in their order, and adds at most
\* one record, of its key, at the end, when the key had none.
C21_SubmitFrame ==
    [][(SubmitStep /\ last'.res.ok) =>
       \A key \in {KeyOf(Trim(last'.req.name.s), Category(last'.req.category))} :
          /\ Len(scoresFile') \in {Len(scoresFile), Len(scoresFile) + 1}
          /\ \A i \in 1..Len(scoresFile) :
                /\ RecordKey(scoresFile'[i]) = RecordKey(scoresFile[i])
                /\ RecordKey(scoresFile[i]) # key
                      => scoresFile'[i] = scoresFile[i]
          /\ Len(scoresFile') = Len(scoresFile) + 1
                => /\ RecordKey(scoresFile'[Len(scoresFile')]) = key
                   /\ Stored(key) = {}]_vars

\* A record appended after two records of other keys, one of them of the
\* same name in another category, has just been updated by a submission
\* under another spelling, and the two others are as they were.
C21_Witness ==
    /\ LastSubmitOk
    /\ Len(scoresFile) = 3
    /\ RecordKey(scoresFile[3]) = LastKey
    /\ scoresFile[3].name # Trim(last.req.name.s)
    /\ scoresFile[3].createdAt < scoresFile[3].updatedAt
    /\ scoresFile[3].updatedAt = last.at
    /\ scoresFile[1] = EarlierRecords[1]
    /\ scoresFile[2] = EarlierRecords[2]
    /\ ToLowerCase(scoresFile[2].name) = ToLowerCase(scoresFile[3].name)

====
